---- MODULE Spec2Model ----
(***************************************************************************)
(* The training drivers of UXSenti: cross_lm.py (cross-lingual adversarial *)
(* language-model training) and mono_lm.py (monolingual language-model     *)
(* training), as state machines over the driver's own variables.           *)
(*                                                                         *)
(* Floats that matter are modelled exactly: a loss is a tagged pair        *)
(* <<"fin", n>>, <<"inf", 0>> or <<"nan", 0>> compared as IEEE-754         *)
(* compares them; a normal draw is a rational in quarter units.            *)
(***************************************************************************)
EXTENDS Integers, Sequences, FiniteSets, TLC

\* ------------------------------------------------------------------ bounds
MaxEpochs == 5          \* args.epochs of the modelled cross_lm runs
MonoEpochs == 2         \* args.epochs of the modelled mono_lm runs
LogInterval == 2        \* args.log_interval of the modelled runs
ValInterval == 2        \* args.val_interval of the modelled runs
MaxCorpus == 12         \* the batched source training corpus has MaxCorpus - 1 or MaxCorpus time steps
MaxEval == 11           \* shortest batched validation / test corpus is MaxEval
MaxLoss == 2            \* finite losses are 1..MaxLoss
MaxBptt == 6            \* args.bptt is MaxBptt - 1 or MaxBptt
MaxDev == 8             \* normal deviations of the runs, in quarter units
MaxLex == 3             \* longest raw lexicon (pairs)
SamplerBptt == 12       \* largest args.bptt of the sampler specification
SamplerDev == 60        \* largest |deviation| of the sampler specification, quarters

\* --------------------------------------------------------------- constants
MinSeqLen == 5          \* the floor in max(5, int(...))

\* ------------------------------------------------------------------ floats
Inf == <<"inf", 0>>
NaN == <<"nan", 0>>
Fin(n) == <<"fin", n>>
LossVals == {Fin(n) : n \in 1..MaxLoss} \cup {Inf, NaN}
StepLosses == 1..MaxLoss

\* Python's a < b on floats: False whenever either side is NaN.
FloatLtNanTrue(a, b) ==
    \/ a[1] = "nan" \/ b[1] = "nan"
    \/ a[1] = "fin" /\ b[1] = "fin" /\ a[2] < b[2]
    \/ a[1] = "fin" /\ b[1] = "inf"
FloatLe(a, b) ==
    /\ a[1] # "nan" /\ b[1] # "nan"
    /\ \/ a[1] = "fin" /\ b[1] = "fin" /\ a[2] <= b[2]
       \/ b[1] = "inf"
FloatLt(a, b) ==
    /\ a[1] # "nan" /\ b[1] # "nan"
    /\ \/ a[1] = "fin" /\ b[1] = "fin" /\ a[2] < b[2]
       \/ a[1] = "fin" /\ b[1] = "inf"

\* ----------------------------------------------------------------- sampler
\* int(x) of a Python float: truncation toward zero; x = n / d.
IntTrunc(n, d) == IF n >= 0 THEN n \div d ELSE -((-n) \div d)
Max(a, b) == IF a >= b THEN a ELSE b

\* bptt = args.bptt if np.random.random() < 0.95 else args.bptt / 2.
\* in quarter units (a length x is stored as 4 * x); `full` is the outcome
\* of the comparison.
BaseLen4(bptt, full) == IF full THEN 4 * bptt ELSE (4 * bptt) \div 2

\* seq_len = max(5, int(x)) for the normal draw x = x4 / 4.
SeqLenNoFloor(x4) == IntTrunc(x4, 4)
\* Python's round(x): to the nearest integer, a tie to the even one.
RoundHalfEven(n, d) ==
    LET f == n \div d
        r == 2 * (n % d)
    IN IF r < d THEN f
       ELSE IF r > d THEN f + 1
       ELSE IF f % 2 = 0 THEN f ELSE f + 1
SeqLenRounded(x4) == Max(MinSeqLen, RoundHalfEven(x4, 4))
SeqLenOf(x4) == Max(MinSeqLen, IntTrunc(x4, 4))

\* ----------------------------------------------------------------- objects
None == [kind |-> "None", id |-> 0, lambd |-> 0]
GradReverse(l, n) == [kind |-> "GradReverse", id |-> n, lambd |-> l]
Lambdas == {1, 2}
NoSnap == [lambd |-> 0, rev_grad |-> None, ver |-> 0]
NoReport == [cur_loss |-> <<0, 0>>, sum |-> 0, steps |-> 0]
\* cur_loss = total_loss / args.log_interval, as a fraction; sum and steps are
\* what went into total_loss
Report(total, n) == [cur_loss |-> <<total, LogInterval>>, sum |-> total, steps |-> n]
NoFile == [state |-> "absent", snap |-> NoSnap, loss |-> NaN]

VARIABLES
    prog,           \* "cross" | "mono" | "sampler" | "lexicon"
    args_resume,    \* args.resume is set
    args_bptt,      \* args.bptt
    src_len,        \* src_train.size(0) (cross), train_data.size(0) (mono)
    trg_len,        \* trg_train.size(0)
    eval_len,       \* val_data.size(0) and test_data.size(0) (mono)
    interrupted,    \* a KeyboardInterrupt was delivered to this run
    int_pc,         \* where main() was when the KeyboardInterrupt was raised
    pc,             \* position of main()
    err,            \* the uncaught exception main() ended with, or "none"
    epoch,          \* the for-loop variable
    src_p, trg_p,   \* the cursors of cross_lm
    i, nbatch,      \* the cursor and batch counter of mono_lm
    draw,           \* the last normal draw, in quarter units
    seq_len,        \* the sampled sequence length
    reset_calls,    \* the reset_* calls of the current step (cross)
    wrapped,        \* the cursors set to 0 by the current step's guard (cross)
    hid,            \* what the monolingual model's recurrent state carries
    mode,           \* "train" | "eval": the monolingual model's mode
    ev_i, ev_for,   \* evaluate()'s cursor and which corpus it runs on (mono)
    total_loss,     \* the loss accumulator
    n_acc,          \* the number of steps added to total_loss since it was last 0
    printed,        \* the training report the log statement has just printed
    val_loss,       \* the last validation loss
    best_val_loss,  \* the tracker (component 0 in cross_lm)
    trainer,        \* [lambd, rev_grad, ver]: the trainer / model in memory
    next_id,        \* identity of the next GradReverse object constructed
    disk,           \* the file at model_path
    resume_file,    \* the file at args.resume
    loaded,         \* what the final model_load returned
    test_ver,       \* version of the model the final report ran on (mono)
    val_seen,       \* the validation losses observed so far
    raw_lex,        \* the raw lexicon: a sequence of <<src word, trg word>>
    src_vocab, trg_vocab,   \* the vocabularies (sets of words)
    lexicon,        \* the loaded lexicon: src word |-> set of trg words
    lex_sz,         \* the second result of load_lexicon
    oov_rate        \* the printed rate, <<numerator, denominator>>

progVars == <<prog, args_resume, args_bptt, src_len, trg_len, eval_len, interrupted,
              int_pc>>
ctlVars == <<pc, err, epoch>>
cursorVars == <<src_p, trg_p, i, nbatch>>
sampleVars == <<draw, seq_len>>
stepVars == <<reset_calls, wrapped>>
monoVars == <<hid, mode, ev_i, ev_for>>
accVars == <<total_loss, n_acc, printed>>
lossVars == <<accVars, val_loss, best_val_loss, val_seen>>
ckptVars == <<trainer, next_id, disk, resume_file, loaded, test_ver>>
lexVars == <<raw_lex, src_vocab, trg_vocab, lexicon, lex_sz, oov_rate>>
vars == <<progVars, ctlVars, cursorVars, sampleVars, stepVars, monoVars,
          lossVars, ckptVars, lexVars>>

\* ------------------------------------------------------------- the drivers
Bptts == {MaxBptt - 1, MaxBptt}
TrainLens == {MaxCorpus - 1, MaxCorpus}
TrgLens == {MaxCorpus - 2, MaxCorpus + 1}
EvalLens == MaxEval .. MaxEval + 2
RunDevs == {-(4 * MaxBptt), 0, MaxDev}

\* The statements of main() inside try: ... except KeyboardInterrupt.
CrossTryPcs == {"train_init", "loop", "sample", "guard", "fetch", "step", "advance",
                "log", "val", "compare", "save_null", "save_open", "save_dump",
                "save_restore", "track"}
MonoTryPcs == {"loop", "epoch_start", "while", "sample", "fetch", "step", "log",
               "eval_start", "eval_loop", "compare", "save_open", "save_dump",
               "track"}

InitRun ==
    /\ prog \in {"cross", "mono"}
    /\ args_resume \in BOOLEAN
    /\ args_bptt \in Bptts
    /\ src_len \in TrainLens
    /\ trg_len \in IF prog = "cross" THEN TrgLens ELSE {0}
    /\ eval_len \in IF prog = "mono" THEN EvalLens ELSE {0}
    /\ interrupted = FALSE /\ int_pc = "none"
    /\ pc = "build" /\ err = "none" /\ epoch = 0
    /\ src_p = 0 /\ trg_p = 0 /\ i = 0 /\ nbatch = 0
    /\ draw = 0 /\ seq_len = 0
    /\ reset_calls = {} /\ wrapped = {}
    /\ hid = "zero" /\ mode = "train" /\ ev_i = 0 /\ ev_for = "none"
    /\ total_loss = 0 /\ n_acc = 0 /\ printed = NoReport
    /\ val_loss = NaN /\ best_val_loss = Inf /\ val_seen = {}
    /\ trainer = NoSnap /\ next_id = 1
    /\ disk = NoFile
    /\ resume_file \in IF args_resume
                       THEN {[state |-> "ok",
                              snap |-> [lambd |-> l, rev_grad |-> None, ver |-> 0],
                              loss |-> Fin(1)] :
                             l \in IF prog = "cross" THEN Lambdas ELSE {0}}
                       ELSE {NoFile}
    /\ loaded = NoSnap /\ test_ver = -1
    /\ raw_lex = <<>> /\ src_vocab = {} /\ trg_vocab = {}
    /\ lexicon = <<>> /\ lex_sz = 0 /\ oov_rate = <<0, 1>>

Raise(e) == pc' = "error" /\ err' = e

\* ---- checkpointing (cross_lm.model_save / model_load)
\* trainer.rev_grad = None
Unstripped(tr) == tr
Stripped(tr) == [tr EXCEPT !.rev_grad = None]
\* trainer.rev_grad = GradReverse(trainer.lambd)
KeepRevGrad(tr, n) == tr
Rebuilt(tr, n) == [tr EXCEPT !.rev_grad = GradReverse(tr.lambd, n)]

\* ---- the guards of the drivers
\* if src_p + seq_len > src_train.size(0)
WrapNeeded(p, n, len) == p + n > len
\* which reset_*() the guard calls, given which cursor it wraps
GuardResetsBoth(sw, tw) == IF sw \/ tw THEN {"src", "trg"} ELSE {}
GuardResets(sw, tw) == (IF sw THEN {"src"} ELSE {}) \cup (IF tw THEN {"trg"} ELSE {})
\* window(): fails with a BoundsError if cursor + sampled_len + 1 > batched.shape[1]
WindowOk(p, n, len) == p + n + 1 <= len
\* if val_loss[0] < best_val_loss[0]  /  if val_loss < best_val_loss
ImprovedOrEqual(v, best) == FloatLe(v, best)
ImprovedUnlessWorse(v, best) == FloatLtNanTrue(v, best)
Improved(v, best) == FloatLt(v, best)
\* (epoch + 1) % args.log_interval == 0
Due(n, interval) == (n + 1) % interval = 0

\* ---- cross_lm.main
CrossBuild ==
    /\ prog = "cross" /\ pc = "build"
    /\ IF args_resume
       THEN /\ trainer' = Rebuilt(resume_file.snap, next_id)
       ELSE /\ \E l \in Lambdas :
                trainer' = [lambd |-> l, rev_grad |-> GradReverse(l, next_id), ver |-> 0]
    /\ next_id' = next_id + 1
    /\ pc' = "params"
    /\ UNCHANGED <<progVars, err, epoch, cursorVars, sampleVars, stepVars, monoVars,
                   lossVars, disk, resume_file, loaded, test_ver, lexVars>>

\* `params`, `src_lm`, `trg_lm`, `discriminator` are bound only on the fresh path.
CrossParams ==
    /\ prog = "cross" /\ pc = "params"
    /\ IF args_resume
       THEN Raise("NameError") /\ UNCHANGED best_val_loss
       ELSE pc' = "train_init" /\ best_val_loss' = Inf /\ UNCHANGED err
    /\ UNCHANGED <<progVars, epoch, cursorVars, sampleVars, stepVars, monoVars,
                   accVars, val_loss, val_seen, ckptVars, lexVars>>

CrossTrainInit ==
    /\ prog = "cross" /\ pc = "train_init"
    /\ src_p' = 0 /\ trg_p' = 0 /\ total_loss' = 0
    /\ UNCHANGED <<n_acc, printed>>
    /\ pc' = "loop"
    /\ UNCHANGED <<progVars, err, epoch, i, nbatch, sampleVars, stepVars, monoVars,
                   val_loss, best_val_loss, val_seen, ckptVars, lexVars>>

\* for epoch in range(1, args.epochs + 1)
For ==
    /\ pc = "loop"
    /\ IF epoch < (IF prog = "cross" THEN MaxEpochs ELSE MonoEpochs)
       THEN epoch' = epoch + 1 /\ pc' = IF prog = "cross" THEN "sample" ELSE "epoch_start"
       ELSE pc' = "test_load" /\ UNCHANGED epoch
    /\ UNCHANGED <<progVars, err, cursorVars, sampleVars, stepVars, monoVars,
                   lossVars, ckptVars, lexVars>>

Sample ==
    /\ pc = "sample"
    /\ \E full \in BOOLEAN, dev \in RunDevs :
          seq_len' = SeqLenOf(BaseLen4(args_bptt, full) + dev)
    /\ reset_calls' = {} /\ wrapped' = {}
    /\ mode' = "train"
    /\ pc' = IF prog = "cross" THEN "guard" ELSE "fetch"
    /\ UNCHANGED <<progVars, err, epoch, cursorVars, draw, hid, ev_i, ev_for,
                   lossVars, ckptVars, lexVars>>

CrossGuard ==
    /\ prog = "cross" /\ pc = "guard"
    /\ LET sw == WrapNeeded(src_p, seq_len, src_len)
           tw == WrapNeeded(trg_p, seq_len, trg_len)
       IN /\ src_p' = IF sw THEN 0 ELSE src_p
          /\ trg_p' = IF tw THEN 0 ELSE trg_p
          /\ wrapped' = (IF sw THEN {"src"} ELSE {}) \cup (IF tw THEN {"trg"} ELSE {})
          /\ reset_calls' = GuardResets(sw, tw)
    /\ pc' = "fetch"
    /\ UNCHANGED <<progVars, err, epoch, i, nbatch, sampleVars, monoVars,
                   lossVars, ckptVars, lexVars>>

CrossFetch ==
    /\ prog = "cross" /\ pc = "fetch"
    /\ IF WindowOk(src_p, seq_len, src_len) /\ WindowOk(trg_p, seq_len, trg_len)
       THEN pc' = "step" /\ UNCHANGED err
       ELSE Raise("BoundsError")
    /\ UNCHANGED <<progVars, epoch, cursorVars, sampleVars, stepVars, monoVars,
                   lossVars, ckptVars, lexVars>>

CrossStep ==
    /\ prog = "cross" /\ pc = "step"
    /\ IF trainer.rev_grad = None
       THEN Raise("TypeError") /\ UNCHANGED <<trainer, accVars>>
       ELSE /\ trainer' = [trainer EXCEPT !.ver = @ + 1]
            /\ \E l \in StepLosses : total_loss' = total_loss + l
            /\ n_acc' = n_acc + 1 /\ UNCHANGED printed
            /\ pc' = "advance" /\ UNCHANGED err
    /\ UNCHANGED <<progVars, epoch, cursorVars, sampleVars, stepVars, monoVars,
                   val_loss, best_val_loss, val_seen, next_id, disk, resume_file,
                   loaded, test_ver, lexVars>>

\* the cursor after a step over n time steps
AdvancedPastWindow(p, n) == p + n + 1
Advanced(p, n) == p + n

CrossAdvance ==
    /\ prog = "cross" /\ pc = "advance"
    /\ src_p' = Advanced(src_p, seq_len)
    /\ trg_p' = Advanced(trg_p, seq_len)
    /\ pc' = "log"
    /\ UNCHANGED <<progVars, err, epoch, i, nbatch, sampleVars, stepVars, monoVars,
                   lossVars, ckptVars, lexVars>>

CrossLog ==
    /\ prog = "cross" /\ pc = "log"
    /\ IF Due(epoch, LogInterval)
       THEN printed' = Report(total_loss, n_acc) /\ total_loss' = 0 /\ n_acc' = 0
       ELSE UNCHANGED accVars
    /\ pc' = "val"
    /\ UNCHANGED <<progVars, err, epoch, cursorVars, sampleVars, stepVars, monoVars,
                   val_loss, best_val_loss, val_seen, ckptVars, lexVars>>

CrossVal ==
    /\ prog = "cross" /\ pc = "val"
    /\ IF Due(epoch, ValInterval)
       THEN /\ \E v \in LossVals : val_loss' = v /\ val_seen' = val_seen \cup {v}
            /\ pc' = "compare"
       ELSE pc' = "loop" /\ UNCHANGED <<val_loss, val_seen>>
    /\ printed' = NoReport
    /\ UNCHANGED <<progVars, err, epoch, cursorVars, sampleVars, stepVars, monoVars,
                   total_loss, n_acc, best_val_loss, ckptVars, lexVars>>

\* ---- shared by both drivers: the checkpoint decision and model_save
Compare ==
    /\ pc = "compare"
    /\ pc' = IF Improved(val_loss, best_val_loss)
             THEN (IF prog = "cross" THEN "save_null" ELSE "save_open")
             ELSE "loop"
    /\ UNCHANGED <<progVars, err, epoch, cursorVars, sampleVars, stepVars, monoVars,
                   lossVars, ckptVars, lexVars>>

SaveNull ==
    /\ pc = "save_null"
    /\ trainer' = Stripped(trainer)
    /\ pc' = "save_open"
    /\ UNCHANGED <<progVars, err, epoch, cursorVars, sampleVars, stepVars, monoVars,
                   lossVars, next_id, disk, resume_file, loaded, test_ver, lexVars>>

\* open(path, 'wb') truncates the file before anything is written
SaveOpen ==
    /\ pc = "save_open"
    /\ disk' = [state |-> "partial", snap |-> NoSnap, loss |-> NaN]
    /\ pc' = "save_dump"
    /\ UNCHANGED <<progVars, err, epoch, cursorVars, sampleVars, stepVars, monoVars,
                   lossVars, trainer, next_id, resume_file, loaded, test_ver, lexVars>>

SaveDump ==
    /\ pc = "save_dump"
    /\ disk' = [state |-> "ok", snap |-> trainer, loss |-> val_loss]
    /\ pc' = IF prog = "cross" THEN "save_restore" ELSE "track"
    /\ UNCHANGED <<progVars, err, epoch, cursorVars, sampleVars, stepVars, monoVars,
                   lossVars, trainer, next_id, resume_file, loaded, test_ver, lexVars>>

\* open(path, 'wb') or torch.save raises (no permission, disk full): not a
\* KeyboardInterrupt, so nothing catches it
SaveFails ==
    /\ pc \in {"save_open", "save_dump"}
    /\ Raise("OSError")
    /\ UNCHANGED <<progVars, epoch, cursorVars, sampleVars, stepVars, monoVars,
                   lossVars, ckptVars, lexVars>>

SaveRestore ==
    /\ pc = "save_restore"
    /\ trainer' = Rebuilt(trainer, next_id)
    /\ next_id' = next_id + 1
    /\ pc' = "track"
    /\ UNCHANGED <<progVars, err, epoch, cursorVars, sampleVars, stepVars, monoVars,
                   lossVars, disk, resume_file, loaded, test_ver, lexVars>>

Track ==
    /\ pc = "track"
    /\ best_val_loss' = val_loss
    /\ pc' = "loop"
    /\ UNCHANGED <<progVars, err, epoch, cursorVars, sampleVars, stepVars, monoVars,
                   accVars, val_loss, val_seen, ckptVars, lexVars>>

\* except KeyboardInterrupt: print(...)
Interrupt ==
    /\ \/ prog = "cross" /\ pc \in CrossTryPcs
       \/ prog = "mono" /\ pc \in MonoTryPcs /\ ev_for # "test"
    /\ interrupted' = TRUE /\ int_pc' = pc
    /\ pc' = "test_load"
    /\ UNCHANGED <<prog, args_resume, args_bptt, src_len, trg_len, eval_len,
                   err, epoch, cursorVars, sampleVars, stepVars, monoVars,
                   lossVars, ckptVars, lexVars>>

\* model_load(model_path)   # Load the best saved model.
TestLoad ==
    /\ pc = "test_load"
    /\ IF disk.state = "absent" THEN Raise("FileNotFoundError") /\ UNCHANGED <<loaded, next_id>>
       ELSE IF disk.state = "partial" THEN Raise("UnpicklingError") /\ UNCHANGED <<loaded, next_id>>
       ELSE /\ loaded' = IF prog = "cross" THEN Rebuilt(disk.snap, next_id) ELSE disk.snap
            /\ next_id' = IF prog = "cross" THEN next_id + 1 ELSE next_id
            /\ pc' = IF prog = "cross" THEN "done" ELSE "test_sample"
            /\ UNCHANGED err
    /\ UNCHANGED <<progVars, epoch, cursorVars, sampleVars, stepVars, monoVars,
                   lossVars, trainer, disk, resume_file, test_ver, lexVars>>

\* ---- mono_lm.main
MonoBuild ==
    /\ prog = "mono" /\ pc = "build"
    /\ trainer' = IF args_resume THEN resume_file.snap ELSE NoSnap
    /\ best_val_loss' = Inf
    /\ pc' = "loop"
    /\ UNCHANGED <<progVars, err, epoch, cursorVars, sampleVars, stepVars, monoVars,
                   accVars, val_loss, val_seen, next_id, disk, resume_file,
                   loaded, test_ver, lexVars>>

\* model.reset() at the head of an epoch
EpochStartHidden(h) == "zero"

MonoEpochStart ==
    /\ prog = "mono" /\ pc = "epoch_start"
    /\ hid' = EpochStartHidden(hid)
    /\ total_loss' = 0 /\ n_acc' = 0 /\ UNCHANGED printed
    /\ nbatch' = 0 /\ i' = 0
    /\ pc' = "while"
    /\ UNCHANGED <<progVars, err, epoch, src_p, trg_p, sampleVars, stepVars,
                   mode, ev_i, ev_for, val_loss, best_val_loss, val_seen,
                   ckptVars, lexVars>>

\* while i < train_data.size(0) - 1 - 1
MonoWhile ==
    /\ prog = "mono" /\ pc = "while"
    /\ IF i < src_len - 1 - 1
       THEN pc' = "sample" /\ UNCHANGED ev_for
       ELSE pc' = "eval_start" /\ ev_for' = "val"
    /\ printed' = NoReport
    /\ UNCHANGED <<progVars, err, epoch, cursorVars, sampleVars, stepVars,
                   hid, mode, ev_i, total_loss, n_acc, val_loss, best_val_loss,
                   val_seen, ckptVars, lexVars>>

MonoFetch ==
    /\ prog = "mono" /\ pc = "fetch"
    /\ IF WindowOk(i, seq_len, src_len)
       THEN pc' = "step" /\ UNCHANGED err
       ELSE Raise("BoundsError")
    /\ UNCHANGED <<progVars, epoch, cursorVars, sampleVars, stepVars, monoVars,
                   lossVars, ckptVars, lexVars>>

\* forward, backward, optimizer.step(), total_loss += raw_loss.data
MonoStep ==
    /\ prog = "mono" /\ pc = "step"
    /\ hid' = "train"
    /\ trainer' = [trainer EXCEPT !.ver = @ + 1]
    /\ \E l \in StepLosses : total_loss' = total_loss + l
    /\ n_acc' = n_acc + 1 /\ UNCHANGED printed
    /\ pc' = "log"
    /\ UNCHANGED <<progVars, err, epoch, cursorVars, sampleVars, stepVars,
                   mode, ev_i, ev_for, val_loss, best_val_loss, val_seen,
                   next_id, disk, resume_file, loaded, test_ver, lexVars>>

MonoLog ==
    /\ prog = "mono" /\ pc = "log"
    /\ IF Due(nbatch, LogInterval)
       THEN printed' = Report(total_loss, n_acc) /\ total_loss' = 0 /\ n_acc' = 0
       ELSE UNCHANGED accVars
    /\ nbatch' = nbatch + 1
    /\ i' = i + seq_len
    /\ pc' = "while"
    /\ UNCHANGED <<progVars, err, epoch, src_p, trg_p, sampleVars, stepVars, monoVars,
                   val_loss, best_val_loss, val_seen, ckptVars, lexVars>>

\* ---- mono_lm.evaluate
\* model.reset() on entry of evaluate()
EvalStartKeepsHidden(h) == h
EvalStartHidden(h) == "zero"

EvalStart ==
    /\ prog = "mono" /\ pc = "eval_start"
    /\ mode' = "eval"
    /\ hid' = EvalStartHidden(hid)
    /\ ev_i' = 0
    /\ pc' = "eval_loop"
    /\ UNCHANGED <<progVars, err, epoch, cursorVars, sampleVars, stepVars, ev_for,
                   lossVars, ckptVars, lexVars>>

\* for i in range(0, test_x.size(0) - 1, bptt): get_batch(...); model(data)
EvalWindow ==
    /\ prog = "mono" /\ pc = "eval_loop"
    /\ ev_i < eval_len - 1
    /\ IF WindowOk(ev_i, args_bptt, eval_len)
       THEN /\ hid' = ev_for
            /\ ev_i' = ev_i + args_bptt
            /\ UNCHANGED <<pc, err>>
       ELSE Raise("BoundsError") /\ UNCHANGED <<hid, ev_i>>
    /\ UNCHANGED <<progVars, epoch, cursorVars, sampleVars, stepVars, mode, ev_for,
                   lossVars, ckptVars, lexVars>>

\* return total_loss.item() / len(test_x)
EvalReturn ==
    /\ prog = "mono" /\ pc = "eval_loop"
    /\ ~(ev_i < eval_len - 1)
    /\ IF ev_for = "val"
       THEN /\ \E v \in LossVals : val_loss' = v /\ val_seen' = val_seen \cup {v}
            /\ pc' = "compare"
       ELSE pc' = "done" /\ UNCHANGED <<val_loss, val_seen>>
    /\ UNCHANGED <<progVars, err, epoch, cursorVars, sampleVars, stepVars, monoVars,
                   accVars, best_val_loss, ckptVars, lexVars>>

\* pred_sents = sample(TEST_SENTS, model, PRED_NWORDS, src_vocab): the `model`
\* of main(), which model_load's discarded result never rebinds.
ReportedModel(mem, ld) == mem.ver

MonoTestSample ==
    /\ prog = "mono" /\ pc = "test_sample"
    /\ mode' = "eval" /\ hid' = "sample"
    /\ test_ver' = ReportedModel(trainer, loaded)
    /\ ev_for' = "test"
    /\ pc' = "eval_start"
    /\ UNCHANGED <<progVars, err, epoch, cursorVars, sampleVars, stepVars, ev_i,
                   lossVars, trainer, next_id, disk, resume_file, loaded, lexVars>>

NextRun ==
    \/ CrossBuild \/ CrossParams \/ CrossTrainInit \/ For \/ Sample
    \/ CrossGuard \/ CrossFetch \/ CrossStep \/ CrossAdvance \/ CrossLog \/ CrossVal
    \/ Compare \/ SaveNull \/ SaveOpen \/ SaveDump \/ SaveFails \/ SaveRestore
    \/ Track
    \/ Interrupt \/ TestLoad
    \/ MonoBuild \/ MonoEpochStart \/ MonoWhile \/ MonoFetch \/ MonoStep \/ MonoLog
    \/ EvalStart \/ EvalWindow \/ EvalReturn \/ MonoTestSample

Spec == InitRun /\ [][NextRun]_vars

\* ------------------------------------------- the sequence-length sampler
\* bptt = args.bptt if np.random.random() < 0.95 else args.bptt / 2.
\* seq_len = max(5, int(np.random.normal(bptt, 5)))
\* The normal distribution has every real in its support: the draw is the
\* base plus any deviation.
InitSampler ==
    /\ prog = "sampler"
    /\ args_resume = FALSE
    /\ args_bptt \in 1 .. SamplerBptt
    /\ src_len = 0 /\ trg_len = 0 /\ eval_len = 0
    /\ interrupted = FALSE /\ int_pc = "none"
    /\ pc = "draw" /\ err = "none" /\ epoch = 0
    /\ src_p = 0 /\ trg_p = 0 /\ i = 0 /\ nbatch = 0
    /\ draw = 0 /\ seq_len = 0
    /\ reset_calls = {} /\ wrapped = {}
    /\ hid = "zero" /\ mode = "train" /\ ev_i = 0 /\ ev_for = "none"
    /\ total_loss = 0 /\ n_acc = 0 /\ printed = NoReport
    /\ val_loss = NaN /\ best_val_loss = Inf /\ val_seen = {}
    /\ trainer = NoSnap /\ next_id = 1
    /\ disk = NoFile /\ resume_file = NoFile
    /\ loaded = NoSnap /\ test_ver = -1
    /\ raw_lex = <<>> /\ src_vocab = {} /\ trg_vocab = {}
    /\ lexicon = <<>> /\ lex_sz = 0 /\ oov_rate = <<0, 1>>

SamplerDraw ==
    /\ prog = "sampler" /\ pc \in {"draw", "drawn"}
    /\ \E full \in BOOLEAN, dev \in -SamplerDev .. SamplerDev :
          /\ draw' = BaseLen4(args_bptt, full) + dev
          /\ seq_len' = SeqLenOf(BaseLen4(args_bptt, full) + dev)
    /\ pc' = "drawn"
    /\ UNCHANGED <<progVars, err, epoch, cursorVars, stepVars, monoVars,
                   lossVars, ckptVars, lexVars>>

NextSampler == SamplerDraw

SpecSampler == InitSampler /\ [][NextSampler]_vars

\* ------------------------------------------------------------ the lexicon
SrcWords == {"cat", "dog", "fish"}
TrgWords == {"chat", "minou"}
RawLexicons == UNION {[1 .. n -> SrcWords \X TrgWords] : n \in 0 .. MaxLex}

\* the raw pairs (by position) whose two words are both in vocabulary
Kept(raw, sv, tv) == {k \in 1 .. Len(raw) : raw[k][1] \in sv /\ raw[k][2] \in tv}

\* load_lexicon: source id |-> set of acceptable target ids, and the raw size
LoadLexicon(raw, sv, tv) ==
    [s \in {raw[k][1] : k \in Kept(raw, sv, tv)} |->
        {raw[k][2] : k \in {j \in Kept(raw, sv, tv) : raw[j][1] = s}}]
RawSize(raw) == Len(raw)

\* 1 - len(lexicon) / lex_sz, as <<numerator, denominator>>
LexLen(lex) == Cardinality(DOMAIN lex)
OovRate(lex, sz) == <<sz - LexLen(lex), sz>>

InitLexicon ==
    /\ prog = "lexicon"
    /\ args_resume = FALSE
    /\ args_bptt = 0
    /\ src_len = 0 /\ trg_len = 0 /\ eval_len = 0
    /\ interrupted = FALSE /\ int_pc = "none"
    /\ pc = "load_lexicon" /\ err = "none" /\ epoch = 0
    /\ src_p = 0 /\ trg_p = 0 /\ i = 0 /\ nbatch = 0
    /\ draw = 0 /\ seq_len = 0
    /\ reset_calls = {} /\ wrapped = {}
    /\ hid = "zero" /\ mode = "train" /\ ev_i = 0 /\ ev_for = "none"
    /\ total_loss = 0 /\ n_acc = 0 /\ printed = NoReport
    /\ val_loss = NaN /\ best_val_loss = Inf /\ val_seen = {}
    /\ trainer = NoSnap /\ next_id = 1
    /\ disk = NoFile /\ resume_file = NoFile
    /\ loaded = NoSnap /\ test_ver = -1
    /\ raw_lex \in RawLexicons
    /\ src_vocab \in SUBSET SrcWords
    /\ trg_vocab \in SUBSET TrgWords
    /\ lexicon = <<>> /\ lex_sz = 0 /\ oov_rate = <<0, 1>>

\* lexicon, lex_sz = load_lexicon(args.lexicon, src_vocab, trg_vocab)
LexLoad ==
    /\ prog = "lexicon" /\ pc = "load_lexicon"
    /\ lexicon' = LoadLexicon(raw_lex, src_vocab, trg_vocab)
    /\ lex_sz' = RawSize(raw_lex)
    /\ pc' = "report_oov"
    /\ UNCHANGED <<progVars, err, epoch, cursorVars, sampleVars, stepVars, monoVars,
                   lossVars, ckptVars, raw_lex, src_vocab, trg_vocab, oov_rate>>

\* print('\tlex oov rate:   {}'.format(1 - len(lexicon) / lex_sz))
LexReport ==
    /\ prog = "lexicon" /\ pc = "report_oov"
    /\ IF lex_sz = 0
       THEN Raise("ZeroDivisionError") /\ UNCHANGED oov_rate
       ELSE oov_rate' = OovRate(lexicon, lex_sz) /\ pc' = "reported" /\ UNCHANGED err
    /\ UNCHANGED <<progVars, epoch, cursorVars, sampleVars, stepVars, monoVars,
                   lossVars, ckptVars, raw_lex, src_vocab, trg_vocab, lexicon, lex_sz>>

NextLexicon == LexLoad \/ LexReport

SpecLexicon == InitLexicon /\ [][NextLexicon]_vars

\* ================================================================== claims

\* C1: in cross_lm, the (cursor, seq_len) pair handed to get_batch after the
\* wrap guard satisfies cursor + seq_len + 1 <= corpus length, for the source
\* and for the target corpus.
C1_WindowWithinCorpus ==
    (prog = "cross" /\ pc = "fetch") =>
        /\ src_p + seq_len + 1 <= src_len
        /\ trg_p + seq_len + 1 <= trg_len

\* C2: in every step of cross_lm the guard calls reset_src() exactly when it
\* wraps the source cursor to 0 and reset_trg() exactly when it wraps the
\* target cursor, each decided by that language's own cursor and length alone,
\* and no other statement of the step resets; in mono_lm a training step sees
\* freshly reset recurrent state exactly at cursor 0, the head of an epoch.
C2_GuardStep ==
    (prog = "cross" /\ pc = "guard" /\ pc' = "fetch") =>
        /\ ("src" \in reset_calls') <=> (src_p + seq_len > src_len)
        /\ ("trg" \in reset_calls') <=> (trg_p + seq_len > trg_len)
        /\ ("src" \in reset_calls') <=> ("src" \in wrapped')
        /\ ("trg" \in reset_calls') <=> ("trg" \in wrapped')
        /\ src_p' = IF "src" \in reset_calls' THEN 0 ELSE src_p
        /\ trg_p' = IF "trg" \in reset_calls' THEN 0 ELSE trg_p
        /\ (reset_calls' = {"src", "trg"}) <=>
               (src_p + seq_len > src_len /\ trg_p + seq_len > trg_len)
C2_OtherSteps ==
    (prog = "cross" /\ pc # "guard") => reset_calls' \subseteq reset_calls
C2_MonoEpochHead ==
    (prog' = "mono" /\ pc' \in {"sample", "fetch", "step"}) =>
        ((hid' = "zero") <=> (i' = 0))
\* C2 (the formula): every step of either driver keeps the three parts above.
C2_ResetIffWrap == [][C2_GuardStep /\ C2_OtherSteps /\ C2_MonoEpochHead]_vars

C2_Witness ==
    /\ prog = "cross" /\ pc = "step" /\ epoch > 1
    /\ reset_calls = {"trg"} /\ trg_p = 0 /\ src_p > 0

\* C3: a KeyboardInterrupt arriving at any point of the training loop leads
\* to a clean shutdown: the run never ends in an uncaught error.
C3_InterruptNeverCrashes == interrupted => pc # "error"

\* C4: the final report of mono_lm (generated sentences, test loss) runs on
\* the model of the last saved checkpoint, not on the in-memory model left by
\* the last training step.
C4_ReportUsesCheckpoint ==
    (prog = "mono" /\ test_ver # -1) => test_ver = disk.snap.ver

\* C5: at every validation point a checkpoint is written iff the new
\* validation loss is strictly lower than the best so far, and the tracker is
\* then set to that loss; the tracker never increases; between validation
\* points the checkpoint on disk is the one of the minimum validation loss.
C5_WrittenIffStrictlyLower ==
    (pc = "compare" /\ pc' # "test_load") =>
        ((pc' \in {"save_null", "save_open"}) <=> FloatLt(val_loss, best_val_loss))
C5_TrackerNeverIncreases == FloatLe(best_val_loss', best_val_loss)
C5_CheckpointIsMinimum ==
    (prog \in {"cross", "mono"} /\ pc = "loop") =>
        /\ \A v \in val_seen : ~FloatLt(v, best_val_loss)
        /\ (disk.state = "ok") => (disk.loss = best_val_loss /\ disk.loss \in val_seen)
        /\ (disk.state # "ok") => (disk.state = "absent" /\ best_val_loss = Inf)
\* C5 (the formula): the state part always, the two step parts on every step.
C5_BestCheckpoint ==
    /\ []C5_CheckpointIsMinimum
    /\ [][C5_WrittenIffStrictlyLower /\ C5_TrackerNeverIncreases]_vars

C5_Witness ==
    /\ pc = "loop" /\ disk.state = "ok"
    /\ disk.loss = Fin(1) /\ val_loss = Fin(2) /\ Fin(2) \in val_seen
    /\ best_val_loss = Fin(1)

\* C6: a validation loss of +inf or NaN is never treated as an improvement:
\* such a validation point writes no checkpoint and leaves the tracker
\* unchanged, also at the first validation point (tracker still inf).
C6_NonFiniteStep ==
    (pc = "compare" /\ val_loss[1] \in {"inf", "nan"}) =>
        /\ pc' \in {"loop", "test_load"}
        /\ disk' = disk
        /\ best_val_loss' = best_val_loss
C6_TrackerAndFileFinite ==
    /\ best_val_loss # NaN
    /\ disk.state = "ok" => disk.loss[1] = "fin"
    /\ pc \in {"save_null", "save_open", "save_dump", "save_restore", "track"}
           => val_loss[1] = "fin"
\* C6 (the formula): a non-finite loss never reaches model_save or the tracker.
C6_NonFiniteNeverImproves == []C6_TrackerAndFileFinite /\ [][C6_NonFiniteStep]_vars

C6_Witness ==
    /\ pc = "loop" /\ val_seen = {NaN, Inf} /\ val_loss = NaN
    /\ best_val_loss = Inf /\ disk.state = "absent"

\* C7: the snapshot cross_lm.model_save writes holds no GradReverse object
\* (rev_grad is None) but holds lambd, and model_load of such a snapshot
\* returns a trainer whose rev_grad is a GradReverse constructed by that load
\* from the persisted lambd, not an object of the saving run.
C7_SnapshotRoundTrip ==
    prog = "cross" =>
        /\ disk.state = "ok" =>
              /\ disk.snap.rev_grad = None
              /\ disk.snap.lambd \in Lambdas
              /\ disk.snap.lambd = trainer.lambd
        /\ loaded # NoSnap =>
              /\ loaded.rev_grad = GradReverse(disk.snap.lambd, next_id - 1)
              /\ loaded.rev_grad.id # trainer.rev_grad.id
              /\ loaded.lambd = disk.snap.lambd /\ loaded.ver = disk.snap.ver
        /\ (args_resume /\ pc # "build") =>
              /\ trainer.rev_grad = GradReverse(resume_file.snap.lambd, 1)
              /\ trainer.lambd = resume_file.snap.lambd

C7_Witness ==
    /\ prog = "cross" /\ pc = "done" /\ disk.state = "ok"
    /\ loaded.rev_grad.kind = "GradReverse" /\ loaded.rev_grad.lambd = 2
    /\ trainer.rev_grad.kind = "GradReverse"

\* C8: cross_lm started with --resume loads the trainer and reaches and
\* executes the training loop without depending on objects that only the
\* fresh-build path creates.
C8_ResumeReachesTraining ==
    (prog = "cross" /\ args_resume) => err # "NameError"

\* C9: the lexicon out-of-vocabulary rate printed at start-up equals
\* dropped pairs / raw pairs, for every raw lexicon and pair of vocabularies.
C9_OovRateIsDroppedFraction ==
    (prog = "lexicon" /\ pc = "reported") =>
        oov_rate[1] * Len(raw_lex) =
            (Len(raw_lex) - Cardinality(Kept(raw_lex, src_vocab, trg_vocab))) * oov_rate[2]

\* C10: every sampled sequence length is an integer >= 5, for every bptt,
\* either base length and every normal draw, negative draws included.
C10_SeqLenAtLeastFive ==
    (prog = "sampler" /\ pc = "drawn") => (seq_len \in Int /\ seq_len >= 5)

C10_Witness ==
    /\ prog = "sampler" /\ pc = "drawn"
    /\ draw < 0 /\ seq_len = 5

\* C11: the sampled sequence length equals max(5, round(x)) for the normal
\* draw x: the nearest integer to x, floored at 5.
C11_SeqLenIsRounded ==
    (prog = "sampler" /\ pc = "drawn") =>
        seq_len = (IF RoundHalfEven(draw, 4) >= 5 THEN RoundHalfEven(draw, 4) ELSE 5)

Abs(n) == IF n >= 0 THEN n ELSE -n
\* C11 (amended): the sampled sequence length equals max(5, int(x)): x with
\* its fraction cut off (the integer t nearest to 0 with |t| <= |x| < |t| + 1,
\* of the sign of x), floored at 5.
C11_SeqLenIsTruncated ==
    (prog = "sampler" /\ pc = "drawn") =>
        \E t \in -Abs(draw) .. Abs(draw) :
            /\ 4 * Abs(t) <= Abs(draw) /\ Abs(draw) < 4 * Abs(t) + 4
            /\ (draw >= 0 => t >= 0) /\ (draw <= 0 => t <= 0)
            /\ seq_len = (IF t >= 5 THEN t ELSE 5)

C11_Witness ==
    /\ prog = "sampler" /\ pc = "drawn"
    /\ draw % 4 = 3 /\ seq_len >= 6 /\ 4 * seq_len < draw

\* C12: each cursor of the cross-lingual loop starts at 0, is advanced by
\* exactly the sampled sequence length after every step and changes otherwise
\* only by being wrapped to 0, so it increases strictly between two wraps and
\* 0 <= cursor <= length of its corpus in every reachable state.
C12_CursorInRange ==
    prog = "cross" =>
        /\ src_p \in 0 .. src_len /\ trg_p \in 0 .. trg_len
        /\ (pc \in {"build", "params", "train_init"} => src_p = 0 /\ trg_p = 0)

C12_CursorStep(p, q, len) ==
    /\ (pc = "advance" /\ pc' = "log") => (q = p + seq_len /\ q > p)
    /\ q # p =>
        \/ pc = "advance" /\ pc' = "log" /\ q = p + seq_len
        \/ pc = "guard" /\ q = 0 /\ p + seq_len > len

\* C12
C12_CursorAdvancedOrWrapped ==
    /\ []C12_CursorInRange
    /\ [][prog = "cross" =>
            /\ C12_CursorStep(src_p, src_p', src_len)
            /\ C12_CursorStep(trg_p, trg_p', trg_len)]_vars

C12_Witness ==
    /\ prog = "cross" /\ pc = "log"
    /\ src_p > seq_len /\ trg_p = seq_len /\ wrapped = {"trg"}

\* C13: cancellation is observed only at a step boundary: an interrupt that
\* arrives while a training step is in flight takes effect after that step
\* has run to completion, so control reaches the post-training phase from the
\* head of the training loop only and no step is left half-applied.
C13_CancelledAtStepBoundary ==
    interrupted => int_pc \in {"train_init", "loop", "epoch_start", "while"}

\* C14: every loss value shown in a training report is the arithmetic mean
\* of the per-step losses over exactly log_interval steps, namely all steps
\* since the previous report (or since the start of training for the first
\* report); the accumulator is zero at the start of each such window.
C14_ReportIsWindowMean ==
    printed # NoReport =>
        /\ printed.steps = LogInterval
        /\ printed.cur_loss[1] * printed.steps = printed.sum * printed.cur_loss[2]

\* C15: in the monolingual driver every forward pass inside evaluate() runs in
\* evaluation mode on recurrent state reset at the start of that call, at the
\* cursors 0, bptt, 2*bptt, ... below size - 1, and every training-step forward
\* pass runs in training mode on recurrent state reset at the epoch start.
C15_ForwardModes ==
    prog = "mono" =>
        /\ (pc = "eval_loop" /\ ev_i < eval_len - 1) =>
                /\ mode = "eval"
                /\ ev_i % args_bptt = 0
                /\ hid = (IF ev_i = 0 THEN "zero" ELSE ev_for)
        /\ pc = "step" =>
                /\ mode = "train"
                /\ hid = (IF i = 0 THEN "zero" ELSE "train")

\* C15: no optimizer step between the entry of evaluate() and its return.
C15_EvaluateIsolated ==
    /\ []C15_ForwardModes
    /\ [][(prog = "mono" /\ pc \in {"eval_start", "eval_loop"}) =>
            (trainer' = trainer /\ (pc' = "eval_loop" => mode' = "eval"))]_vars

C15_Witness ==
    /\ prog = "mono" /\ pc = "step" /\ epoch = 2 /\ i > 0
    /\ val_seen # {} /\ ev_i > args_bptt

\* C16: trainer.step is never invoked while trainer.rev_grad is None:
\* model_save sets it to None for serialization, and wherever training goes
\* on after a checkpoint write (a failed or interrupted write included)
\* rev_grad is GradReverse(trainer.lambd) again before the next step.
C16_RevGradSetAtStep ==
    prog = "cross" =>
        /\ pc = "step" => trainer.rev_grad = GradReverse(trainer.lambd, trainer.rev_grad.id)
        /\ (trainer # NoSnap /\ trainer.rev_grad = None) =>
                \/ pc \in {"save_open", "save_dump", "save_restore"}
                \/ pc = "error" /\ err = "OSError"
                \/ interrupted /\ int_pc \in {"save_open", "save_dump", "save_restore"}
        /\ err # "TypeError"

\* C16
C16_StepNeverSeesNone ==
    /\ []C16_RevGradSetAtStep
    /\ [][(prog = "cross" /\ trainer'.ver # trainer.ver /\ pc = "step") =>
            trainer.rev_grad.kind = "GradReverse"]_vars

C16_Witness ==
    /\ prog = "cross" /\ pc = "step" /\ disk.state = "ok"
    /\ disk.snap.rev_grad = None /\ disk.snap.ver < trainer.ver
    /\ trainer.rev_grad = GradReverse(trainer.lambd, next_id - 1)

\* C17: every epoch of the monolingual training loop terminates: i starts at
\* 0, increases strictly by the sampled sequence length (>= 5) on every
\* iteration and the inner loop exits once i >= size - 2, so for any corpus
\* length and any sequence of sampled lengths the epoch reaches validation.
C17_EpochNotAbandoned ==
    (prog = "mono" /\ epoch >= 1 /\ mode = "train" /\ ~interrupted) => pc # "error"

\* C17
C17_EpochReachesValidation ==
    /\ [](prog = "mono" /\ pc = "while" /\ nbatch = 0 => i = 0)
    /\ [][(prog = "mono" /\ pc = "log" /\ pc' = "while") =>
            (i' = i + seq_len /\ i' >= i + 5)]_vars
    /\ [][(prog = "mono" /\ pc = "while" /\ i >= src_len - 2) => pc' # "sample"]_vars
    /\ []C17_EpochNotAbandoned

====
